---- MODULE Spec2Model ----
(***************************************************************************)
(* A model of the two autodoc documenters of sphinx-toolbox:               *)
(*   ProtocolDocumenter   (more_autodoc/autoprotocol.py)                   *)
(*   NamedTupleDocumenter (more_autodoc/autonamedtuple.py)                 *)
(* Each handler the host framework calls (filter_members,                  *)
(* document_members, add_content, sort_members) is one action; the host's  *)
(* event manager (the autodoc-skip-member listeners) and the documented    *)
(* object are the state the handlers read and change.                      *)
(*                                                                         *)
(* Text is modelled as follows.  A member name is the sequence of its      *)
(* pieces, "_" standing for one underscore character, so that startswith   *)
(* and endswith are computed on the name.  A Python string is a sequence   *)
(* of atoms, "sp" standing for white space, so that ' '.join, ''.join and  *)
(* strip() are computed; None is the value NoneVal.                        *)
(***************************************************************************)
EXTENDS Integers, Sequences, FiniteSets, TLC

VARIABLES
    phase,       \* "idle": between two calls of the host; "done": a handler has returned or raised
    op,          \* the handler that ran last
    app,         \* whether self.env.app is set
    listeners,   \* the handlers connected to autodoc-skip-member, in call order
    exclude,     \* options["exclude-protocol-members"]
    members,     \* the list handed to the handler: the members, or the documenters
    ret,         \* what filter_members returned
    keeps,       \* the value of the local `keep` at the end of each iteration
    warned,      \* the members filter_members_warning was called for
    baseAll,     \* what document_members handed to the base implementation
    fields,      \* the namedtuple's _fields
    allHints,    \* get_type_hints(self.object)
    newHints,    \* get_type_hints(self.object.__new__)
    objDoc,      \* the lines of self.object.__doc__, dedented; <<>> when it is None or empty
    showInh,     \* whether "show-inheritance" is in self.options
    srcOK,       \* whether inspect.getsource(self.object) finds the source
    attrDocs,    \* the attribute docstrings in the class source, by field
    fieldDoc,    \* getattr(self.object, field).__doc__, by field
    lines,       \* the lines the handler emitted through add_line
    raised,      \* the exception the handler raised, "none" when it returned
    baseNoDoc,   \* the no_docstring add_content handed to Documenter.add_content
    addArgs      \* the arguments of add_content: more_content and no_docstring

ntvars == <<fields, allHints, newHints, objDoc, showInh, srcOK, attrDocs, fieldDoc,
            lines, raised, baseNoDoc, addArgs>>

vars == <<phase, op, app, listeners, exclude, members, ret, keeps, warned, baseAll, ntvars>>

(***************************************************************************)
(* Bounds of the model.                                                    *)
(***************************************************************************)
MaxMembers == 2
MaxListeners == 1

(***************************************************************************)
(* Member names.                                                           *)
(***************************************************************************)
Dunder(x) == <<"_", "_", x, "_", "_">>

\* str.startswith / str.endswith on a name
StartsWith1(n) == Len(n) >= 1 /\ n[1] = "_"
StartsWith2(n) == Len(n) >= 2 /\ n[1] = "_" /\ n[2] = "_"
EndsWith2(n) == Len(n) >= 2 /\ n[Len(n)] = "_" /\ n[Len(n) - 1] = "_"

IsDunder(n) == StartsWith2(n) /\ EndsWith2(n)

IsPrivateName_AnyUnderscore(n) == StartsWith1(n)
\* autoprotocol.py:331
IsPrivateName(n) == StartsWith1(n) /\ ~(StartsWith2(n) /\ EndsWith2(n))

\* autoprotocol.py:194-214
globally_excluded_methods ==
    { Dunder("module"), Dunder("new"), Dunder("init"), Dunder("subclasshook"),
      Dunder("doc"), Dunder("tree_hash"), Dunder("extra"), Dunder("orig_bases"),
      Dunder("origin"), Dunder("parameters"), Dunder("next_in_mro"),
      Dunder("slots"), Dunder("args"), Dunder("dict"), Dunder("weakref"),
      Dunder("annotations"), Dunder("abstractmethods"),
      Dunder("class_getitem"), Dunder("init_subclass") }

ProtoNames ==
    { <<"_", "helper">>,          \* private
      <<"_", "_", "secret">>,     \* private, name-mangled
      Dunder("eq"),               \* special
      Dunder("init"),             \* special, globally excluded
      <<"meth">> }                \* public

(***************************************************************************)
(* A member: its name, whether it has a docstring, and what object it is:  *)
(*   "own"          defined by the protocol, name not in dir(base)         *)
(*   "inherited"    the very object the base class has under that name     *)
(*   "overridden"   name in dir(base), another object                      *)
(*   "mock"         has a true __sphinx_mock__                             *)
(*   "INSTANCEATTR" the INSTANCEATTR sentinel                              *)
(***************************************************************************)
ObjKinds == {"own", "inherited", "overridden", "mock", "INSTANCEATTR"}

\* The members the model hands to filter_members: every name, documented or not,
\* as the protocol's own member, and a special and a public name as each of the
\* other kinds of object.
ProtoMembers ==
    [name : ProtoNames, doc : BOOLEAN, obj : {"own"}]
    \cup [name : {Dunder("eq"), <<"meth">>}, doc : {TRUE}, obj : ObjKinds \ {"own"}]

SeqsUpTo(S, n) == UNION {[1..k -> S] : k \in 0..n}

(***************************************************************************)
(* The host's event manager.  A listener is a callback                     *)
(* handler(app, what, name, obj, skip, options); it answers None, a truthy *)
(* or falsy value, or raises.  The kinds below are the callbacks the model *)
(* connects: each answers `gives` for the members its `when` selects and   *)
(* None for the others.                                                    *)
(***************************************************************************)
Truthy(v) == v \in {"True", "One"}

Applies(when, name, member) ==
    CASE when = "always" -> TRUE
      [] when = "dunder" -> IsDunder(name)
      [] when = "private" -> IsPrivateName(name)
      [] when = "undoc" -> ~member.doc
      [] when = "new" -> name = Dunder("new")

Handler(l, name, member, skip) ==
    IF Applies(l.when, name, member) THEN l.gives ELSE "None"

ProtoListenerKinds ==
    { [when |-> "always", gives |-> "True", prio |-> 500],
      [when |-> "always", gives |-> "False", prio |-> 500],
      [when |-> "dunder", gives |-> "RAISE", prio |-> 500],
      [when |-> "undoc", gives |-> "One", prio |-> 500],
      [when |-> "private", gives |-> "Zero", prio |-> 500] }

\* app.connect(event, handler, priority): the listeners are called in the order
\* of their priority and, within one priority, in the order they were connected
Connect(ls, l) ==
    LET before == SelectSeq(ls, LAMBDA x : x.prio <= l.prio)
        after == SelectSeq(ls, LAMBDA x : x.prio > l.prio)
    IN  before \o <<l>> \o after

RECURSIVE FirstNotNone(_)
FirstNotNone(rs) ==
    IF rs = <<>> THEN "None"
    ELSE IF Head(rs) # "None" THEN Head(rs)
    ELSE FirstNotNone(Tail(rs))

\* app.emit_firstresult("autodoc-skip-member", objtype, membername, member, not keep, options):
\* every listener is called, in order; an exception of any of them is raised to
\* the caller; otherwise the first answer that is not None is returned.
emit_firstresult(ls, name, member, skip) ==
    LET rs == [i \in DOMAIN ls |-> Handler(ls[i], name, member, skip)]
    IN  IF \E i \in DOMAIN rs : rs[i] = "RAISE" THEN "RAISE"
        ELSE FirstNotNone(rs)

(***************************************************************************)
(* ProtocolDocumenter.filter_members                                       *)
(***************************************************************************)
OwnKeep_NoPrivateBranch(m, excl) ==
    IF m.obj = "mock" THEN FALSE
    ELSE IF excl # {} /\ m.name \in excl THEN FALSE
    ELSE IF m.name \notin globally_excluded_methods THEN
        IF m.obj \in {"inherited", "overridden"} THEN m.obj # "inherited" ELSE TRUE
    ELSE FALSE

OwnKeep_NeedsDoc(m, excl) ==
    IF m.obj = "mock" THEN FALSE
    ELSE IF excl # {} /\ m.name \in excl THEN FALSE
    ELSE IF IsPrivateName(m.name) THEN FALSE
    ELSE IF m.name \notin globally_excluded_methods THEN
        IF m.obj \in {"inherited", "overridden"} THEN m.obj # "inherited" ELSE m.doc
    ELSE FALSE

\* autoprotocol.py:320-342: the value of `keep` before the event is emitted
OwnKeep(m, excl) ==
    IF m.obj = "mock" THEN FALSE
    ELSE IF excl # {} /\ m.name \in excl THEN FALSE
    ELSE IF IsPrivateName(m.name) THEN FALSE
    ELSE IF m.name \notin globally_excluded_methods THEN
        IF m.obj \in {"inherited", "overridden"} THEN m.obj # "inherited" ELSE TRUE
    ELSE FALSE

\* autoprotocol.py:348-363: the effect of the event's answer on `keep`
AfterEvent(keep, skip_user) ==
    IF skip_user = "RAISE" THEN [keep |-> FALSE, warn |-> TRUE]
    ELSE IF skip_user # "None" THEN [keep |-> ~Truthy(skip_user), warn |-> FALSE]
    ELSE [keep |-> keep, warn |-> FALSE]

\* autoprotocol.py:320-363: one iteration of the loop
ProtoDecide(m, excl, hasApp, ls) ==
    LET keep == OwnKeep(m, excl)
    IN  IF hasApp
        THEN AfterEvent(keep, emit_firstresult(ls, m.name, m, ~keep))
        ELSE [keep |-> keep, warn |-> FALSE]

\* autoprotocol.py:366
RetEntry(m) == <<m.name, m, m.obj = "INSTANCEATTR">>

RECURSIVE ProtoLoop_StopOnRaise(_, _, _, _, _)
ProtoLoop_StopOnRaise(ms, excl, hasApp, ls, acc) ==
    IF ms = <<>> THEN acc
    ELSE LET m == Head(ms)
             d == ProtoDecide(m, excl, hasApp, ls)
             nxt == [ret |-> IF d.keep THEN Append(acc.ret, RetEntry(m)) ELSE acc.ret,
                     keeps |-> Append(acc.keeps, d.keep),
                     warned |-> IF d.warn THEN Append(acc.warned, m) ELSE acc.warned]
         IN  IF d.warn THEN nxt
             ELSE ProtoLoop_StopOnRaise(Tail(ms), excl, hasApp, ls, nxt)

\* autoprotocol.py:314-368: the loop over the members
RECURSIVE ProtoLoop(_, _, _, _, _)
ProtoLoop(ms, excl, hasApp, ls, acc) ==
    IF ms = <<>> THEN acc
    ELSE LET m == Head(ms)
             d == ProtoDecide(m, excl, hasApp, ls)
         IN  ProtoLoop(Tail(ms), excl, hasApp, ls,
                 [ret |-> IF d.keep THEN Append(acc.ret, RetEntry(m)) ELSE acc.ret,
                  keeps |-> Append(acc.keeps, d.keep),
                  warned |-> IF d.warn THEN Append(acc.warned, m) ELSE acc.warned])

EmptyAcc == [ret |-> <<>>, keeps |-> <<>>, warned |-> <<>>]

ProtoFilter(ms, excl, hasApp, ls) == ProtoLoop(ms, excl, hasApp, ls, EmptyAcc)

\* ProtocolDocumenter.document_members: the argument given to the base implementation
DocumentMembersArg(all_members) == TRUE

NoAddArgs == [more_content |-> <<>>, no_docstring |-> TRUE]

\* the namedtuple documenter's content state when a specification leaves it out
SortIdle ==
    /\ objDoc = <<>>
    /\ showInh = FALSE
    /\ srcOK = TRUE
    /\ attrDocs = <<>>
    /\ fieldDoc = <<>>
    /\ lines = <<>>
    /\ raised = "none"
    /\ baseNoDoc = "unset"
    /\ addArgs = NoAddArgs

(***************************************************************************)
(* The protocol documenter as a state machine.                             *)
(***************************************************************************)
ProtoExcludes == { {}, {<<"meth">>, Dunder("eq")} }

ProtoInit ==
    /\ phase = "idle"
    /\ op = "none"
    /\ app \in BOOLEAN
    /\ listeners = <<>>
    /\ exclude \in ProtoExcludes
    /\ members = <<>>
    /\ ret = <<>>
    /\ keeps = <<>>
    /\ warned = <<>>
    /\ baseAll = "unset"
    /\ fields = <<>>
    /\ allHints = <<>>
    /\ newHints = <<>>
    /\ SortIdle

\* app.connect("autodoc-skip-member", handler), by conf.py or another extension
ProtoConnect(l) ==
    /\ phase = "idle"
    /\ app             \* the listeners are the app's: without an app there are none
    /\ Len(listeners) < MaxListeners
    /\ listeners' = Connect(listeners, l)
    /\ UNCHANGED <<phase, op, app, exclude, members, ret, keeps, warned, baseAll, ntvars>>

ProtoFilterMembers(ms, want_all) ==
    /\ phase = "idle"
    /\ LET r == ProtoFilter(ms, exclude, app, listeners)
       IN  /\ ret' = r.ret
           /\ keeps' = r.keeps
           /\ warned' = r.warned
    /\ members' = ms
    /\ phase' = "done"
    /\ op' = "filter_members"
    /\ UNCHANGED <<app, listeners, exclude, baseAll, ntvars>>

ProtoDocumentMembers(all_members) ==
    /\ phase = "idle"
    /\ baseAll' = DocumentMembersArg(all_members)
    /\ phase' = "done"
    /\ op' = "document_members"
    /\ members' = <<>>
    /\ ret' = <<>>
    /\ keeps' = <<>>
    /\ warned' = <<>>
    /\ UNCHANGED <<app, listeners, exclude, ntvars>>

\* the handler has returned; the host goes on to its next call
Return ==
    /\ phase = "done"
    /\ phase' = "idle"
    /\ op' = "none"
    /\ members' = <<>>
    /\ ret' = <<>>
    /\ keeps' = <<>>
    /\ warned' = <<>>
    /\ baseAll' = "unset"
    /\ UNCHANGED <<app, listeners, exclude, ntvars>>

\* the member lists the host may hand over; it calls only when no call is running
ProtoMemberLists == IF phase = "idle" THEN SeqsUpTo(ProtoMembers, MaxMembers) ELSE {}

ProtoNext ==
    \/ \E l \in ProtoListenerKinds : ProtoConnect(l)
    \/ \E ms \in ProtoMemberLists, w \in BOOLEAN : ProtoFilterMembers(ms, w)
    \/ \E a \in BOOLEAN : ProtoDocumentMembers(a)
    \/ Return

ProtoSpec == ProtoInit /\ [][ProtoNext]_vars

(***************************************************************************)
(* Properties of ProtocolDocumenter, stated on the state a call leaves.    *)
(***************************************************************************)
FilterDone == phase = "done" /\ op = "filter_members"

RemoveAt(s, i) == [k \in 1..(Len(s) - 1) |-> IF k < i THEN s[k] ELSE s[k + 1]]

\* the member list with the docstring of member i added or removed
DocTwin(ms, i) == [ms EXCEPT ![i].doc = ~@]

\* what the event answers for a member of the call
EventAnswer(m) == emit_firstresult(listeners, m.name, m, ~OwnKeep(m, exclude))

\* a name that starts with '_' and does not both start and end with '__'
PrivateByName(n) == n # <<>> /\ Head(n) = "_" /\ ~IsDunder(n)

FalseAnswers == {"False", "Zero"}

InRet(m) == \E k \in DOMAIN ret : ret[k] = <<m.name, m, m.obj = "INSTANCEATTR">>

C9_EventOutcome ==
    (FilterDone /\ app) =>
        /\ Len(keeps) = Len(members)
        /\ \A i \in DOMAIN members :
              LET m == members[i]
                  rest == ProtoFilter(RemoveAt(members, i), exclude, app, listeners)
              IN  /\ EventAnswer(m) = "RAISE" =>
                        /\ ~keeps[i]
                        /\ \E w \in DOMAIN warned : warned[w] = m
                        /\ ret = rest.ret
                        /\ RemoveAt(keeps, i) = rest.keeps
                  /\ EventAnswer(m) \notin {"None", "RAISE"} =>
                        (keeps[i] <=> EventAnswer(m) \in FalseAnswers)

\* the event raised for a member, and the member after it was kept
C9_Witness ==
    /\ FilterDone /\ app
    /\ Len(members) = 2
    /\ EventAnswer(members[1]) = "RAISE"
    /\ warned = <<members[1]>>
    /\ keeps = <<FALSE, TRUE>>
    /\ ret = <<<<members[2].name, members[2], members[2].obj = "INSTANCEATTR">>>>

(***************************************************************************)
(* NamedTupleDocumenter.filter_members                                     *)
(***************************************************************************)
Range(f) == {f[x] : x \in DOMAIN f}

Restrict(f, S) == [x \in S |-> f[x]]

\* autonamedtuple.py:279
class_hints(flds, hints) == Restrict(hints, Range(flds) \cap DOMAIN hints)

\* autonamedtuple.py:289-292
new_hints(hints) == Restrict(hints, DOMAIN hints \ {"cls", "return"})

NeedsUnskip_AllHints(flds, all, new) ==
    /\ DOMAIN all # {}
    /\ DOMAIN new_hints(new) # {}
    /\ all # new_hints(new)
\* autonamedtuple.py:294
NeedsUnskip(flds, all, new) ==
    /\ DOMAIN class_hints(flds, all) # {}
    /\ DOMAIN new_hints(new) # {}
    /\ class_hints(flds, all) # new_hints(new)

\* autonamedtuple.py:297-300: answers False for __new__ and None for the others
unskip_new == [when |-> "new", gives |-> "False", prio |-> 500]

\* app.disconnect(listener_id)
Disconnect(ls, l) == SelectSeq(ls, LAMBDA x : x # l)

\* A member as the base class sees it: baseKeep is what ClassDocumenter's own
\* rules (members, special-members, private-members, undoc-members,
\* exclude-members, ...) decide for it, isattr what they find it to be.
NTMembers ==
    [name : {Dunder("new"), <<"meth">>}, baseKeep : BOOLEAN, isattr : {FALSE}]
    \cup [name : {<<"a">>}, baseKeep : {TRUE}, isattr : {TRUE}]

\* ClassDocumenter.filter_members, one iteration: the base class's own decision,
\* then the autodoc-skip-member event: an answer other than None decides, an
\* exception is reported and leaves the member out.
BaseDecide(m, ls) ==
    LET skip_user == emit_firstresult(ls, m.name, m, ~m.baseKeep)
    IN  IF skip_user = "RAISE" THEN [keep |-> FALSE, warn |-> TRUE]
        ELSE IF skip_user # "None" THEN [keep |-> ~Truthy(skip_user), warn |-> FALSE]
        ELSE [keep |-> m.baseKeep, warn |-> FALSE]

\* ClassDocumenter.filter_members: the loop over the members
RECURSIVE BaseFilterLoop(_, _, _)
BaseFilterLoop(ms, ls, acc) ==
    IF ms = <<>> THEN acc
    ELSE LET m == Head(ms)
             d == BaseDecide(m, ls)
         IN  BaseFilterLoop(Tail(ms), ls,
                 [ret |-> IF d.keep THEN Append(acc.ret, <<m.name, m, m.isattr>>) ELSE acc.ret,
                  keeps |-> Append(acc.keeps, d.keep),
                  warned |-> IF d.warn THEN Append(acc.warned, m) ELSE acc.warned])

\* autonamedtuple.py:302: the listeners while the base class filters
ListenersDuring(ls, flds, all, new) ==
    IF NeedsUnskip(flds, all, new) THEN Connect(ls, unskip_new) ELSE ls

\* autonamedtuple.py:278-308
NTFilter(ms, ls, flds, all, new) ==
    BaseFilterLoop(ms, ListenersDuring(ls, flds, all, new), EmptyAcc)

\* autonamedtuple.py:302-304: the listeners once filter_members has returned
ListenersAfter(ls, flds, all, new) ==
    IF NeedsUnskip(flds, all, new)
    THEN Disconnect(ListenersDuring(ls, flds, all, new), unskip_new)
    ELSE ls

NTListenerKinds ==
    { [when |-> "always", gives |-> "True", prio |-> 500],
      [when |-> "always", gives |-> "False", prio |-> 500],
      [when |-> "new", gives |-> "True", prio |-> 900],
      [when |-> "dunder", gives |-> "RAISE", prio |-> 900] }

HintTypes == {"int", "str"}

\* the dictionaries with keys in S and values in T
Dicts(S, T) == UNION {[D -> T] : D \in SUBSET S}

FieldHintTypes(k) == IF k = "a" THEN HintTypes ELSE {"int"}
NewHintTypes(k) == IF k \in {"cls", "return"} THEN {"T"} ELSE FieldHintTypes(k)

NTFilterInit ==
    /\ phase = "idle"
    /\ op = "none"
    /\ app = TRUE
    /\ listeners = <<>>
    /\ exclude = {}
    /\ members = <<>>
    /\ ret = <<>>
    /\ keeps = <<>>
    /\ warned = <<>>
    /\ baseAll = "unset"
    /\ fields \in {<<"a">>, <<"a", "b">>}
    /\ allHints \in {h \in Dicts({"a", "b"}, HintTypes) :
                        \A k \in DOMAIN h : h[k] \in FieldHintTypes(k)}
    /\ newHints \in {h \in Dicts({"a", "b", "cls", "return"}, HintTypes \cup {"T"}) :
                        \A k \in DOMAIN h : h[k] \in NewHintTypes(k)}
    /\ SortIdle

NTConnect(l) ==
    /\ phase = "idle"
    /\ Len(listeners) < MaxListeners
    /\ listeners' = Connect(listeners, l)
    /\ UNCHANGED <<phase, op, app, exclude, members, ret, keeps, warned, baseAll, ntvars>>

NTFilterMembers(ms, want_all) ==
    /\ phase = "idle"
    /\ LET r == NTFilter(ms, listeners, fields, allHints, newHints)
       IN  /\ ret' = r.ret
           /\ keeps' = r.keeps
           /\ warned' = r.warned
    /\ listeners' = ListenersAfter(listeners, fields, allHints, newHints)
    /\ members' = ms
    /\ phase' = "done"
    /\ op' = "nt_filter_members"
    /\ UNCHANGED <<app, exclude, baseAll, ntvars>>

\* the member lists the host may hand over; it calls only when no call is running
NTMemberLists == IF phase = "idle" THEN SeqsUpTo(NTMembers, MaxMembers) ELSE {}

NTFilterNext ==
    \/ \E l \in NTListenerKinds : NTConnect(l)
    \/ \E ms \in NTMemberLists, w \in BOOLEAN : NTFilterMembers(ms, w)
    \/ Return

NTFilterSpec == NTFilterInit /\ [][NTFilterNext]_vars

NTFilterDone == phase = "done" /\ op = "nt_filter_members"

\* the hints of the fields and of __new__ as the claim reads them
FieldHints == [k \in Range(fields) \cap DOMAIN allHints |-> allHints[k]]
NewHintsStripped == [k \in DOMAIN newHints \ {"cls", "return"} |-> newHints[k]]

NewInRet == \E k \in DOMAIN ret : ret[k][1] = Dunder("new")
NewPassed == \E i \in DOMAIN members : members[i].name = Dunder("new")

NoneStr == <<"NONE">>    \* None where a string is expected

WhiteAtoms == {"sp", "tab"}

\* ' '.join(ss)
RECURSIVE JoinSp(_)
JoinSp(ss) ==
    IF ss = <<>> THEN <<>>
    ELSE IF Len(ss) = 1 THEN ss[1]
    ELSE ss[1] \o <<"sp">> \o JoinSp(Tail(ss))

\* autonamedtuple.py:369, 373: not ''.join(doc).strip()
IsBlank(doc) == \A i \in DOMAIN doc : \A j \in DOMAIN doc[i] : doc[i][j] \in WhiteAtoms

\* ' '.join(ss) raises TypeError when an item is None
HasNone(ss) == \E i \in DOMAIN ss : ss[i] = NoneStr

\* autonamedtuple.py:149, 388: field_alias_re.match(s or '')
AliasText == "Alias for field number"
Digits == <<"0", "1", "2", "3">>
field_alias_re_match(s) ==
    /\ s # NoneStr
    /\ Len(s) >= 2
    /\ s[1] = AliasText
    /\ \E d \in DOMAIN Digits : s[2] = Digits[d]

\* sphinx_toolbox.more_autodoc.typehints.format_annotation
format_annotation(t) == <<":py:class:", t>>

(***************************************************************************)
(* The docstring: Documenter.process_doc and utils.parse_parameters.       *)
(* A parameter field is the line  :param name: text  or                    *)
(* :param type name: text;  :type name: type  gives a type alone; a line   *)
(* that starts with a tab continues the field before it.                   *)
(***************************************************************************)
\* Documenter.process_doc with no autodoc-process-docstring listener: the lines,
\* closed by an empty line
process_doc(ls) ==
    IF ls # <<>> /\ ls[Len(ls)] # <<>> THEN Append(ls, <<>>) ELSE ls

IsUntypedParam(l) == Len(l) >= 3 /\ l[1] = ":param" /\ l[3] = ":"
IsTypedParam(l) == Len(l) >= 4 /\ l[1] = ":param" /\ l[4] = ":"
IsTypeOnly(l) == Len(l) >= 3 /\ l[1] = ":type" /\ l[3] = ":"
IsContinuation(l) == Len(l) >= 1 /\ l[1] = "tab"

Rest(l, k) == SubSeq(l, k, Len(l))

NoParams == [x \in {} |-> <<>>]

add_empty(params, name) ==
    IF name \in DOMAIN params THEN params
    ELSE [x \in DOMAIN params \cup {name} |->
            IF x = name THEN [doc |-> <<>>, type |-> <<>>] ELSE params[x]]

RECURSIVE ParseLoop(_, _)
ParseLoop(ls, st) ==
    IF ls = <<>> THEN st
    ELSE LET l == Head(ls)
             nxt ==
                IF IsTypedParam(l) THEN
                    [st EXCEPT !.params = [add_empty(st.params, l[3]) EXCEPT
                                              ![l[3]] = [doc |-> <<Rest(l, 5)>>, type |-> <<l[2]>>]],
                               !.last = l[3]]
                ELSE IF IsUntypedParam(l) THEN
                    [st EXCEPT !.params = [add_empty(st.params, l[2]) EXCEPT
                                              ![l[2]].doc = <<Rest(l, 4)>>],
                               !.last = l[2]]
                ELSE IF IsTypeOnly(l) THEN
                    [st EXCEPT !.params = [add_empty(st.params, l[2]) EXCEPT
                                              ![l[2]].type = Rest(l, 4)]]
                ELSE IF IsContinuation(l) /\ st.last # "" THEN
                    [st EXCEPT !.params[st.last].doc = Append(@, l)]
                ELSE IF st.last = "" THEN [st EXCEPT !.pre = Append(@, l)]
                ELSE [st EXCEPT !.post = Append(@, l)]
         IN  ParseLoop(Tail(ls), nxt)

\* utils.parse_parameters: the parameters, the lines before the first field
\* (pre_output) and the lines after the fields (post_output)
parse_parameters(ls) ==
    ParseLoop(ls, [params |-> NoParams, last |-> "", pre |-> <<>>, post |-> <<>>])

PlaceholderLine == <<":class:", "typing.NamedTuple", ".">>

\* autonamedtuple.py:223-232
GetDocstring(doc, inh) ==
    LET docstring == IF doc # <<>> THEN doc
                     ELSE IF ~inh THEN <<PlaceholderLine>>
                     ELSE << <<>> >>
    IN  parse_parameters(process_doc(docstring))

(***************************************************************************)
(* NamedTupleDocumenter.add_content                                        *)
(***************************************************************************)
\* Documenter.add_content(more_content, no_docstring): the docstring unless
\* no_docstring, then more_content
BaseAddContent(more, no_docstring, doc) ==
    (IF no_docstring THEN <<>> ELSE process_doc(doc)) \o more

AddContentNoDocstring_PassThrough(no_docstring) == no_docstring
\* autonamedtuple.py:205: the no_docstring handed to Documenter.add_content
AddContentNoDocstring(no_docstring) == TRUE

\* autonamedtuple.py:201-213
AddContentLines(more, no_docstring, doc, inh) ==
    BaseAddContent(more, AddContentNoDocstring(no_docstring), doc)
        \o GetDocstring(doc, inh).pre

(***************************************************************************)
(* NamedTupleDocumenter.sort_members                                       *)
(***************************************************************************)
\* autonamedtuple.py:332-344
MemberDocstrings(ok, adocs) == IF ok THEN adocs ELSE NoParams

\* autonamedtuple.py:361-374: the description of a field
FieldDoc(field, params, mdocs, fdoc) ==
    LET doc1 == IF field \in DOMAIN params THEN params[field].doc ELSE << <<>> >>
        doc2 == IF IsBlank(doc1) /\ field \in DOMAIN mdocs THEN mdocs[field] ELSE doc1
    IN  IF IsBlank(doc2) THEN <<fdoc[field]>> ELSE doc2

\* autonamedtuple.py:362-380: the type of a field
FieldType(field, params, hints) ==
    LET arg_type == IF field \in DOMAIN params THEN params[field].type ELSE <<>>
    IN  IF DOMAIN hints # {} /\ field \in DOMAIN hints
        THEN format_annotation(hints[field])
        ELSE arg_type

\* autonamedtuple.py:382-386: the items of the entry
FieldEntry(pos, field, arg_type, doc) ==
    << <<"tab", Digits[pos + 1], ")">>, <<"|nbsp|">>, <<"**", field, "**">> >>
        \o (IF arg_type # <<>> THEN << <<"(">> \o arg_type \o <<"\\)">> >> ELSE <<>>)
        \o << <<"--">> >>
        \o doc

\* autonamedtuple.py:360-391: the loop over the fields, from field number i on;
\* params loses the fields it has served (params.pop)
RECURSIVE FieldLoop(_, _, _, _, _, _, _)
FieldLoop(i, flds, params, mdocs, hints, fdoc, out) ==
    IF i > Len(flds) THEN [lines |-> out, fieldDoc |-> fdoc, raised |-> "none"]
    ELSE LET field == flds[i]
             doc == FieldDoc(field, params, mdocs, fdoc)
             arg_type == FieldType(field, params, hints)
             entry == FieldEntry(i - 1, field, arg_type, doc)
             fdoc2 == IF field_alias_re_match(fdoc[field])
                      THEN [fdoc EXCEPT ![field] = JoinSp(doc)]
                      ELSE fdoc
             rest == [x \in DOMAIN params \ {field} |-> params[x]]
         IN  IF HasNone(entry)
             THEN [lines |-> out, fieldDoc |-> fdoc2, raised |-> "TypeError"]
             ELSE FieldLoop(i + 1, flds, rest, mdocs, hints, fdoc2, Append(out, JoinSp(entry)))

\* ClassDocumenter.sort_members: by name for 'alphabetical', as given otherwise
\* (no source order is known to the model)
NameOrder == <<"__new__", "a", "b", "c", "meth">>
Rank(d) == CHOOSE r \in DOMAIN NameOrder : NameOrder[r] = d.name[Len(d.name)]
RECURSIVE SortByName(_)
SortByName(ds) ==
    IF ds = <<>> THEN <<>>
    ELSE LET least == CHOOSE k \in DOMAIN ds : \A j \in DOMAIN ds :
                          Rank(ds[k]) < Rank(ds[j]) \/ (Rank(ds[k]) = Rank(ds[j]) /\ k <= j)
         IN  <<ds[least]>> \o SortByName([j \in 1..(Len(ds) - 1) |->
                                            IF j < least THEN ds[j] ELSE ds[j + 1]])
BaseSortMembers(ds, order) == IF order = "alphabetical" THEN SortByName(ds) ELSE ds

FieldsLine == <<":Fields:">>

\* autonamedtuple.py:324-401
sort_members(ds, order, flds, doc, inh, ok, adocs, hints, fdoc) ==
    LET sorted == BaseSortMembers(ds, order)
        parsed == GetDocstring(doc, inh)
        loop == FieldLoop(1, flds, parsed.params, MemberDocstrings(ok, adocs), hints, fdoc,
                          << <<>>, FieldsLine, <<>> >>)
    IN  IF loop.raised # "none"
        THEN [lines |-> loop.lines, fieldDoc |-> loop.fieldDoc, raised |-> loop.raised,
              ret |-> <<>>]
        ELSE [lines |-> loop.lines \o << <<>> >> \o parsed.post \o << <<>> >>,
              fieldDoc |-> loop.fieldDoc,
              raised |-> "none",
              ret |-> SelectSeq(sorted, LAMBDA d : d.name[Len(d.name)] \notin Range(flds))]

(***************************************************************************)
(* The namedtuples the model documents.  Field number 1 takes every        *)
(* combination of its sources; the later fields take a few.                *)
(***************************************************************************)
MaxFields == 2

FieldOrder == <<"a", "b", "c">>

\* the lines a field has in the class docstring
ParamLines(choice, f) ==
    CASE choice = "absent" -> <<>>
      [] choice = "blank" -> << <<":param", f, ":">> >>
      [] choice = "desc" -> << <<":param", f, ":", "pdoc">>, <<"tab", "more">> >>
      [] choice = "typed" -> << <<":param", "str", f, ":", "pdoc">> >>
      [] choice = "typeonly" -> << <<":type", f, ":", "str">> >>

\* the attribute docstring of a field in the class source, as find_attr_docs gives it
AttrDocLines(choice) == IF choice = "blank" THEN << <<>> >> ELSE << <<"adoc">>, <<>> >>

\* the __doc__ of the class attribute of field number i
FieldDocText(choice, i) ==
    CASE choice = "alias" -> <<AliasText, Digits[i]>>
      [] choice = "custom" -> <<"cdoc">>
      [] choice = "blank" -> <<>>
      [] choice = "none" -> NoneStr

FieldVariants(i) ==
    IF i = 1
    THEN [param : {"absent", "blank", "desc", "typed", "typeonly"},
          adoc : {"absent", "blank", "present"},
          fdoc : {"alias", "custom", "blank", "none"},
          hint : {"absent", "int"}]
    ELSE { [param |-> "absent", adoc |-> "absent", fdoc |-> "alias", hint |-> "absent"],
           [param |-> "absent", adoc |-> "absent", fdoc |-> "none", hint |-> "absent"],
           [param |-> "typed", adoc |-> "absent", fdoc |-> "alias", hint |-> "absent"] }

RECURSIVE VariantSeqs(_)
VariantSeqs(n) ==
    IF n = 0 THEN {<<>>}
    ELSE {Append(v, x) : v \in VariantSeqs(n - 1), x \in FieldVariants(n)}

RECURSIVE AllParamLines(_, _)
AllParamLines(v, i) ==
    IF i > Len(v) THEN <<>>
    ELSE ParamLines(v[i].param, FieldOrder[i]) \o AllParamLines(v, i + 1)

DocLines(shape, v) ==
    (IF shape = "full" THEN << <<"Summary">>, <<>> >> ELSE <<>>)
        \o AllParamLines(v, 1)
        \o (IF shape = "full" THEN << <<>>, <<"Trailer">> >> ELSE <<>>)

Documenter(n) == [name |-> <<"mod", "T", n>>, isattr |-> n \in Range(FieldOrder)]

DocumenterLists == { <<>>, <<Documenter("meth"), Documenter("a"), Documenter("__new__")>> }

SortInit ==
    /\ phase = "idle"
    /\ op = "none"
    /\ app = TRUE
    /\ listeners = <<>>
    /\ exclude = {}
    /\ members = <<>>
    /\ ret = <<>>
    /\ keeps = <<>>
    /\ warned = <<>>
    /\ baseAll = "unset"
    /\ newHints = <<>>
    /\ \E n \in 0..MaxFields : \E v \in VariantSeqs(n) : \E shape \in {"bare", "full"} :
          /\ fields = SubSeq(FieldOrder, 1, n)
          /\ objDoc = DocLines(shape, v)
          /\ attrDocs = [f \in {FieldOrder[i] : i \in {j \in 1..n : v[j].adoc # "absent"}} |->
                            AttrDocLines(v[CHOOSE i \in 1..n : FieldOrder[i] = f].adoc)]
          /\ fieldDoc = [f \in {FieldOrder[i] : i \in 1..n} |->
                            LET i == CHOOSE j \in 1..n : FieldOrder[j] = f
                            IN  FieldDocText(v[i].fdoc, i)]
          /\ allHints = [f \in {FieldOrder[i] : i \in {j \in 1..n : v[j].hint # "absent"}} |->
                            v[CHOOSE i \in 1..n : FieldOrder[i] = f].hint]
    /\ showInh \in BOOLEAN
    /\ srcOK \in BOOLEAN
    /\ lines = <<>>
    /\ raised = "none"
    /\ baseNoDoc = "unset"
    /\ addArgs = NoAddArgs

SortMembers(ds, order) ==
    /\ phase = "idle"
    /\ LET r == sort_members(ds, order, fields, objDoc, showInh, srcOK, attrDocs, allHints, fieldDoc)
       IN  /\ lines' = r.lines
           /\ fieldDoc' = r.fieldDoc
           /\ raised' = r.raised
           /\ ret' = r.ret
    /\ members' = ds
    /\ phase' = "done"
    /\ op' = "sort_members"
    /\ UNCHANGED <<app, listeners, exclude, keeps, warned, baseAll, fields, allHints, newHints,
                   objDoc, showInh, srcOK, attrDocs, baseNoDoc, addArgs>>

AddContent(more, no_docstring) ==
    /\ phase = "idle"
    /\ lines' = AddContentLines(more, no_docstring, objDoc, showInh)
    /\ baseNoDoc' = AddContentNoDocstring(no_docstring)
    /\ addArgs' = [more_content |-> more, no_docstring |-> no_docstring]
    /\ phase' = "done"
    /\ op' = "add_content"
    /\ UNCHANGED <<app, listeners, exclude, members, ret, keeps, warned, baseAll, fields,
                   allHints, newHints, objDoc, showInh, srcOK, attrDocs, fieldDoc, raised>>

\* the handler has returned or raised; the host goes on to its next call.  What
\* sort_members wrote to the __doc__ of the class attributes stays.
SortReturn ==
    /\ phase = "done"
    /\ phase' = "idle"
    /\ op' = "none"
    /\ members' = <<>>
    /\ ret' = <<>>
    /\ lines' = <<>>
    /\ raised' = "none"
    /\ baseNoDoc' = "unset"
    /\ addArgs' = NoAddArgs
    /\ UNCHANGED <<app, listeners, exclude, keeps, warned, baseAll, fields, allHints, newHints,
                   objDoc, showInh, srcOK, attrDocs, fieldDoc>>

SortNext ==
    \/ \E ds \in DocumenterLists, order \in {"alphabetical", "bysource"} : SortMembers(ds, order)
    \/ \E more \in {<<>>, << <<"Extra">> >>}, nd \in BOOLEAN : AddContent(more, nd)
    \/ SortReturn

SortSpec == SortInit /\ [][SortNext]_vars

(***************************************************************************)
(* Properties of NamedTupleDocumenter.sort_members and add_content.        *)
(***************************************************************************)
SortDone == phase = "done" /\ op = "sort_members"
AddDone == phase = "done" /\ op = "add_content"

\* the line is the entry of the field at position pos (counted from 0)
IsEntryFor(line, pos, f) ==
    /\ Len(line) >= 11
    /\ SubSeq(line, 1, 9) = <<"tab", Digits[pos + 1], ")", "sp", "|nbsp|", "sp", "**", f, "**">>

IsEntry(line) ==
    /\ Len(line) >= 11
    /\ line[1] = "tab" /\ line[3] = ")" /\ line[5] = "|nbsp|" /\ line[7] = "**" /\ line[9] = "**"

\* the '(type)' part of an entry
HasTypePart(line) == line[11] = "("
CloseOf(line) == CHOOSE j \in 12..Len(line) : line[j] = "\\)" /\ \A k \in 12..(j - 1) : line[k] # "\\)"
TypeOf(line) == SubSeq(line, 12, CloseOf(line) - 1)

\* the description of an entry: what follows '--'
DescOf(line) ==
    LET dash == IF HasTypePart(line) THEN CloseOf(line) + 2 ELSE 11
    IN  SubSeq(line, dash + 2, Len(line))

\* the parameters of the class docstring
DocParams == GetDocstring(objDoc, showInh).params

\* the description the precedence of C7 chooses for a field
PrecedenceDoc(f) ==
    IF f \in DOMAIN DocParams /\ ~IsBlank(DocParams[f].doc) THEN DocParams[f].doc
    ELSE IF srcOK /\ f \in DOMAIN attrDocs /\ ~IsBlank(attrDocs[f]) THEN attrDocs[f]
    ELSE <<fieldDoc[f]>>

\* the '(type)' part C8 gives a field: <<>> for none
PreferredType(f) ==
    IF f \in DOMAIN allHints THEN format_annotation(allHints[f])
    ELSE IF f \in DOMAIN DocParams THEN DocParams[f].type
    ELSE <<>>

EntriesAfter(k) == SelectSeq(SubSeq(lines, k + 1, Len(lines)), IsEntry)

FieldsShown ==
    \E k \in DOMAIN lines :
        /\ lines[k] = FieldsLine
        /\ Len(EntriesAfter(k)) = Len(fields)
        /\ \A i \in DOMAIN fields : IsEntryFor(EntriesAfter(k)[i], i - 1, fields[i])

DescriptionsShown ==
    \A i \in DOMAIN fields :
        \E k \in DOMAIN lines :
            /\ IsEntryFor(lines[k], i - 1, fields[i])
            /\ DescOf(lines[k]) = JoinSp(PrecedenceDoc(fields[i]))

TypesShown ==
    \A i \in DOMAIN fields :
        \E k \in DOMAIN lines :
            /\ IsEntryFor(lines[k], i - 1, fields[i])
            /\ IF PreferredType(fields[i]) # <<>>
               THEN HasTypePart(lines[k]) /\ TypeOf(lines[k]) = PreferredType(fields[i])
               ELSE ~HasTypePart(lines[k])

\* C4: every call of sort_members emits a ':Fields:' line followed by exactly
\* one entry line per name in _fields, in their order.
C4_FieldsAlwaysShown == SortDone => FieldsShown

\* C7: for every field an entry line is emitted, and its description is the one
\* of the class docstring's parameter list if that is not blank, otherwise the
\* attribute docstring of the class source if there is one and it is not blank,
\* otherwise the __doc__ of the field's class attribute.
C7_DescriptionByPrecedence == SortDone => DescriptionsShown

\* C8: every field is shown with its formatted annotation if it has one, with
\* the type of the class docstring if it has no annotation, and with no
\* '(type)' part if it has neither.
C8_AnnotationPreferred == SortDone => TypesShown

\* What holds of every call of sort_members that returns: the three properties
\* above, and the call raises exactly when the description chosen for one of
\* the fields is None.
Sort_WhenReturned ==
    (SortDone /\ raised = "none") => (FieldsShown /\ DescriptionsShown /\ TypesShown)

Sort_RaisesOnlyOnNone ==
    SortDone => (raised = "TypeError" <=> \E i \in DOMAIN fields : HasNone(PrecedenceDoc(fields[i])))

\* the lines add_content takes from the docstring: the lines before the first
\* :param field that are no :type field
IsParamLine(l) == Len(l) >= 1 /\ l[1] = ":param"
IsTypeLine(l) == Len(l) >= 1 /\ l[1] = ":type"
LeadingText(ls) ==
    LET firstParam == IF \E k \in DOMAIN ls : IsParamLine(ls[k])
                      THEN CHOOSE k \in DOMAIN ls :
                               IsParamLine(ls[k]) /\ \A j \in 1..(k - 1) : ~IsParamLine(ls[j])
                      ELSE Len(ls) + 1
    IN  SelectSeq(SubSeq(ls, 1, firstParam - 1), LAMBDA l : ~IsTypeLine(l))

Closed(ls) == IF ls # <<>> /\ ls[Len(ls)] # <<>> THEN ls \o << <<>> >> ELSE ls

====
